---- MODULE Spec2Model ----
(***************************************************************************)
(* State-machine model of the Game component (src/src/components/Game.tsx):*)
(* the React state of the component, the socket.io event handlers that the *)
(* mount effect registers, the click handlers, the render gate that decides *)
(* which buttons exist, and the setTimeout callbacks.                      *)
(*                                                                         *)
(* Conventions.  A JS string that is only compared is a TLA+ string; a     *)
(* string whose characters matter (display name, lobby code) is a sequence *)
(* of one-character strings.  "null" and "undefined" are the JS values     *)
(* null and undefined of string-typed fields; a nullable number, name or   *)
(* object is None (<<>>) or Some(x) (<<x>>).  Pending setTimeout callbacks *)
(* are kept in arming order in timers; showInfo (the help overlay) is      *)
(* presentational only and is left out.                                    *)
(***************************************************************************)
EXTENDS Integers, Sequences, FiniteSets, TLC

VARIABLES
  playerName,        \* useState("")                      Game.tsx:39
  boardSize,         \* useState(20), the <select> choice Game.tsx:40
  gameState,         \* useState<GameState>               Game.tsx:41-48
  error,             \* useState<string|null>(null)       Game.tsx:49
  gameOver,          \* useState(false)                   Game.tsx:50
  gameResult,        \* useState(null)                    Game.tsx:51
  gameOverInfo,      \* useState(null)                    Game.tsx:52
  eliminationInfo,   \* useState(null)                    Game.tsx:53-54
  showStartScreen,   \* useState(true)                    Game.tsx:55
  lobbyCode,         \* useState(null)                    Game.tsx:57
  joinCodeInput,     \* useState("")                      Game.tsx:58
  lobbyStep,         \* useState("menu")                  Game.tsx:59-61
  playerNameRef,     \* useRef(playerName)                Game.tsx:63
  mySocketId,        \* useState(null)                    Game.tsx:64
  errorTimeout,      \* useRef(null)                      Game.tsx:65
  justPickedNumber,  \* useRef(false)                     Game.tsx:66
  socketId,          \* socketRef.current.id              Game.tsx:74-75
  timers,            \* pending setTimeout callbacks, in arming order
  emitted            \* what the last step passed to socket.emit

vars == <<playerName, boardSize, gameState, error, gameOver, gameResult,
          gameOverInfo, eliminationInfo, showStartScreen, lobbyCode,
          joinCodeInput, lobbyStep, playerNameRef, mySocketId, errorTimeout,
          justPickedNumber, socketId, timers, emitted>>

----------------------------------------------------------------------------
(* JS values *)

null == "null"

undefined == "undefined"

None == <<>>

Some(x) == <<x>>

\* Array.from({ length: n }, (_, i) => i + 1)
ArrayFrom1(n) == [i \in 1..n |-> i]

\* the set of the elements of an array
Range(s) == {s[i] : i \in 1..Len(s)}

----------------------------------------------------------------------------
(* Program constants *)

DefaultBoardSize == 20

DuplicateMessage == "All players have chosen the same number. Pick a new number."

NameTooShortMessage == "Name must be at least 2 characters long"

CodeLengthMessage == "Lobby code must be 5 characters"

CodePatternMessage == "Lobby code must contain only letters and numbers"

\* useState<GameState>({...})
InitialGameState ==
  [players |-> <<>>,
   numbers |-> ArrayFrom1(DefaultBoardSize),
   currentTurn |-> null,
   currentPlayerName |-> None,
   gameStarted |-> FALSE,
   boardSize |-> DefaultBoardSize,
   status |-> undefined]

\* The playerName the mount effect's handlers close over: the effect has no
\* dependencies, so youWon / youLost read the value of the first render.
ClosurePlayerName == <<>>

----------------------------------------------------------------------------
(* Array helpers *)

\* Array.prototype.find: the first element that satisfies Test, or None
Find(s, Test(_)) ==
  LET hits == SelectSeq(s, Test)
  IN IF hits = <<>> THEN None ELSE Some(Head(hits))

\* Array.prototype.every
Every(s, Test(_)) == \A i \in 1..Len(s) : Test(s[i])

\* the earlier revision's way: the local participant is the first row whose
\* name is the typed display name
FindMeByName(players, id) == Find(players, LAMBDA p : p.name = playerName)

\* gameState.players.find(p => p.id === mySocketId)
FindMe(players, id) == Find(players, LAMBDA p : p.id = id)

\* me && me.selectedNumber === null
\* selection withheld while a message is displayed
MeCanSelectNoError(players, id) ==
  /\ error = null
  /\ FindMe(players, id) # None
  /\ FindMe(players, id)[1].selectedNumber = None

MeCanSelect(players, id) ==
  LET me == FindMe(players, id)
  IN me # None /\ me[1].selectedNumber = None

\* gameState.players.every((p) => p.selectedNumber !== null)
AllSelected(players) == Every(players, LAMBDA p : p.selectedNumber # None)

\* socketRef.current?.id === gameState.currentTurn
IsMyTurn(sid, gs) == sid = gs.currentTurn

----------------------------------------------------------------------------
(* setTimeout.  timers holds the kind of every pending callback, oldest     *)
(* first: "pick" (500 ms, clears justPickedNumber), "error" (3000 ms,       *)
(* clears error, the one errorTimeout refers to) and "banner" (3000 ms,     *)
(* clears eliminationInfo).  Callbacks of equal delay run in arming order,  *)
(* and a 500 ms callback runs before any 3000 ms callback armed after it.   *)

PickDelay == 500

ClearDelay == 3000

TimerDelay(kind) == IF kind = "pick" THEN PickDelay ELSE ClearDelay

\* setTimeout(callback, TimerDelay(kind))
SetTimeout(q, kind) == Append(q, kind)

\* clearTimeout(errorTimeout.current)
ClearErrorTimeout(q) == SelectSeq(q, LAMBDA k : k # "error")

\* the callback at position i may run next
Due(q, i) ==
  \A j \in 1..(i - 1) : TimerDelay(q[j]) > TimerDelay(q[i])

\* q without the callback at position i
WithoutTimer(q, i) == SubSeq(q, 1, i - 1) \o SubSeq(q, i + 1, Len(q))

\* how many callbacks of this kind are pending
PendingCount(kind) == Cardinality({i \in 1..Len(timers) : timers[i] = kind})

Pending(kind) == \E i \in 1..Len(timers) : timers[i] = kind

----------------------------------------------------------------------------
(* Render gate (Game.tsx:281-764): which screen the component returns *)

Phase ==
  IF showStartScreen /\ lobbyStep = "menu" THEN "Menu"
  ELSE IF showStartScreen /\ lobbyStep = "create" THEN "CreateForm"
  ELSE IF showStartScreen /\ lobbyStep = "join" THEN "JoinForm"
  ELSE IF showStartScreen /\ lobbyStep = "creating" THEN "AwaitingLobbyCode"
  ELSE IF gameOver THEN "GameOver"
  ELSE IF ~gameState.gameStarted THEN "LobbyWait"
  ELSE "Playing"

----------------------------------------------------------------------------
(* Initial state: the first render, socket created but not yet connected *)

Init ==
  /\ playerName = <<>>
  /\ boardSize = DefaultBoardSize
  /\ gameState = InitialGameState
  /\ error = null
  /\ gameOver = FALSE
  /\ gameResult = null
  /\ gameOverInfo = None
  /\ eliminationInfo = None
  /\ showStartScreen = TRUE
  /\ lobbyCode = None
  /\ joinCodeInput = <<>>
  /\ lobbyStep = "menu"
  /\ playerNameRef = <<>>
  /\ mySocketId = null
  /\ errorTimeout = null
  /\ justPickedNumber = FALSE
  /\ socketId = undefined
  /\ timers = <<>>
  /\ emitted = <<>>

----------------------------------------------------------------------------
(* What the snapshot invariants of the data model ask of a roster, a turn   *)
(* holder and a pool                                                        *)

UniqueIds(players) ==
  \A i, j \in 1..Len(players) : players[i].id = players[j].id => i = j

TurnHolderOk(players, turn) ==
  turn # null =>
    \E i \in 1..Len(players) :
      players[i].id = turn /\ ~players[i].isEliminated

PoolOk(numbers, size) == Range(numbers) \subseteq 1..size

----------------------------------------------------------------------------
(* Socket lifecycle and inbound events (the mount effect, Game.tsx:72-226). *)
(* An inbound event is delivered only while the socket is connected.        *)

Connected == socketId # undefined

\* a connect handler that does not capture the id
ConnectWithoutCapture(id) ==
  /\ ~Connected
  /\ socketId' = id
  /\ emitted' = <<>>
  /\ UNCHANGED <<playerName, boardSize, gameState, error, gameOver,
                 gameResult, gameOverInfo, eliminationInfo, showStartScreen,
                 lobbyCode, joinCodeInput, lobbyStep, playerNameRef,
                 mySocketId, errorTimeout, justPickedNumber, timers>>

\* newSocket.on("connect", ...): socket.io has assigned newSocket.id
Connect(id) ==
  /\ ~Connected
  /\ socketId' = id
  /\ mySocketId' = id
  /\ emitted' = <<>>
  /\ UNCHANGED <<playerName, boardSize, gameState, error, gameOver,
                 gameResult, gameOverInfo, eliminationInfo, showStartScreen,
                 lobbyCode, joinCodeInput, lobbyStep, playerNameRef,
                 errorTimeout, justPickedNumber, timers>>

\* the transport drops: socket.io clears newSocket.id, no handler is registered
Disconnect ==
  /\ Connected
  /\ socketId' = undefined
  /\ emitted' = <<>>
  /\ UNCHANGED <<playerName, boardSize, gameState, error, gameOver,
                 gameResult, gameOverInfo, eliminationInfo, showStartScreen,
                 lobbyCode, joinCodeInput, lobbyStep, playerNameRef,
                 mySocketId, errorTimeout, justPickedNumber, timers>>

\* a playerList handler that keeps the rows of the old roster the new one lacks
PlayerListMerging(players) ==
  /\ Connected
  /\ gameState' =
       [gameState EXCEPT !.players =
          players \o SelectSeq(gameState.players,
                               LAMBDA old : \A i \in 1..Len(players) :
                                              players[i].id # old.id)]
  /\ emitted' = <<>>
  /\ UNCHANGED <<playerName, boardSize, error, gameOver, gameResult,
                 gameOverInfo, eliminationInfo, showStartScreen, lobbyCode,
                 joinCodeInput, lobbyStep, playerNameRef, mySocketId,
                 errorTimeout, justPickedNumber, socketId, timers>>

\* newSocket.on("playerList", ...)
PlayerList(players) ==
  /\ Connected
  /\ gameState' = [gameState EXCEPT !.players = players]
  /\ emitted' = <<>>
  /\ UNCHANGED <<playerName, boardSize, error, gameOver, gameResult,
                 gameOverInfo, eliminationInfo, showStartScreen, lobbyCode,
                 joinCodeInput, lobbyStep, playerNameRef, mySocketId,
                 errorTimeout, justPickedNumber, socketId, timers>>

\* newSocket.on("gameStarted", ...)
GameStarted(data) ==
  /\ Connected
  /\ gameState' = [gameState EXCEPT !.gameStarted = TRUE,
                                    !.currentTurn = data.currentTurn,
                                    !.currentPlayerName = data.currentPlayerName,
                                    !.numbers = data.numbers]
  /\ emitted' = <<>>
  /\ UNCHANGED <<playerName, boardSize, error, gameOver, gameResult,
                 gameOverInfo, eliminationInfo, showStartScreen, lobbyCode,
                 joinCodeInput, lobbyStep, playerNameRef, mySocketId,
                 errorTimeout, justPickedNumber, socketId, timers>>

\* a numberEliminated handler that takes the pool and keeps its own turn
\* holder
NumberEliminatedKeepsTurn(data) ==
  /\ Connected
  /\ gameState' = [gameState EXCEPT !.numbers = data.remainingNumbers]
  /\ emitted' = <<>>
  /\ UNCHANGED <<playerName, boardSize, error, gameOver, gameResult,
                 gameOverInfo, eliminationInfo, showStartScreen, lobbyCode,
                 joinCodeInput, lobbyStep, playerNameRef, mySocketId,
                 errorTimeout, justPickedNumber, socketId, timers>>

\* newSocket.on("numberEliminated", ...)
NumberEliminated(data) ==
  /\ Connected
  /\ gameState' = [gameState EXCEPT !.numbers = data.remainingNumbers,
                                    !.currentTurn = data.currentTurn,
                                    !.currentPlayerName = data.currentPlayerName]
  /\ emitted' = <<>>
  /\ UNCHANGED <<playerName, boardSize, error, gameOver, gameResult,
                 gameOverInfo, eliminationInfo, showStartScreen, lobbyCode,
                 joinCodeInput, lobbyStep, playerNameRef, mySocketId,
                 errorTimeout, justPickedNumber, socketId, timers>>

\* an error handler that takes the message as a rejection of the lobby and
\* forgets the lobby code
ErrorRollsBack(message) ==
  /\ Connected
  /\ IF justPickedNumber
       THEN UNCHANGED <<error, errorTimeout, timers, lobbyCode>>
       ELSE /\ error' = message
            /\ timers' = SetTimeout(IF errorTimeout # null
                                      THEN ClearErrorTimeout(timers)
                                      ELSE timers, "error")
            /\ errorTimeout' = "timer"
            /\ lobbyCode' = None
  /\ emitted' = <<>>
  /\ UNCHANGED <<playerName, boardSize, gameState, gameOver, gameResult,
                 gameOverInfo, eliminationInfo, showStartScreen,
                 joinCodeInput, lobbyStep, playerNameRef, mySocketId,
                 justPickedNumber, socketId>>

\* newSocket.on("error", ...)
Error(message) ==
  /\ Connected
  /\ IF justPickedNumber
       THEN UNCHANGED <<error, errorTimeout, timers>>
       ELSE /\ error' = message
            /\ timers' = SetTimeout(IF errorTimeout # null
                                      THEN ClearErrorTimeout(timers)
                                      ELSE timers, "error")
            /\ errorTimeout' = "timer"
  /\ emitted' = <<>>
  /\ UNCHANGED <<playerName, boardSize, gameState, gameOver, gameResult,
                 gameOverInfo, eliminationInfo, showStartScreen, lobbyCode,
                 joinCodeInput, lobbyStep, playerNameRef, mySocketId,
                 justPickedNumber, socketId>>

\* the banner youWon and youLost build from their payload
SelfBanner(data) ==
  [playerName |-> ClosurePlayerName,
   number |-> data.number,
   placement |-> data.placement,
   totalPlayers |-> data.totalPlayers]

\* a banner that is shown but registers no clear
ShowBannerUntimed(info) ==
  /\ Connected
  /\ eliminationInfo' = Some(info)
  /\ emitted' = <<>>
  /\ UNCHANGED <<playerName, boardSize, gameState, error, gameOver,
                 gameResult, gameOverInfo, showStartScreen, lobbyCode,
                 joinCodeInput, lobbyStep, playerNameRef, mySocketId,
                 errorTimeout, justPickedNumber, socketId, timers>>

\* setEliminationInfo(info); setTimeout(() => setEliminationInfo(null), 3000)
ShowBanner(info) ==
  /\ Connected
  /\ eliminationInfo' = Some(info)
  /\ timers' = SetTimeout(timers, "banner")
  /\ emitted' = <<>>
  /\ UNCHANGED <<playerName, boardSize, gameState, error, gameOver,
                 gameResult, gameOverInfo, showStartScreen, lobbyCode,
                 joinCodeInput, lobbyStep, playerNameRef, mySocketId,
                 errorTimeout, justPickedNumber, socketId>>

\* the youWon handler of the earlier revision: it ends the game itself
YouWonEndsGame(data) ==
  /\ Connected
  /\ gameOver' = TRUE
  /\ gameResult' = "won"
  /\ gameOverInfo' =
       Some([placements |->
               <<[name |-> ClosurePlayerName, number |-> 0,
                  placement |-> data.placement]>>])
  /\ emitted' = <<>>
  /\ UNCHANGED <<playerName, boardSize, gameState, error, eliminationInfo,
                 showStartScreen, lobbyCode, joinCodeInput, lobbyStep,
                 playerNameRef, mySocketId, errorTimeout, justPickedNumber,
                 socketId, timers>>

\* newSocket.on("youWon", ...)
YouWon(data) == ShowBanner(SelfBanner(data))

\* newSocket.on("youLost", ...)
YouLost(data) == ShowBanner(SelfBanner(data))

\* newSocket.on("playerEliminated", ...)
PlayerEliminated(info) == ShowBanner(info)

\* a gameOver handler that also ends the round in the snapshot
GameOverClearsStarted(info) ==
  /\ Connected
  /\ gameOver' = TRUE
  /\ gameOverInfo' = Some(info)
  /\ gameState' = [gameState EXCEPT !.gameStarted = FALSE]
  /\ emitted' = <<>>
  /\ UNCHANGED <<playerName, boardSize, error, gameResult,
                 eliminationInfo, showStartScreen, lobbyCode, joinCodeInput,
                 lobbyStep, playerNameRef, mySocketId, errorTimeout,
                 justPickedNumber, socketId, timers>>

\* a gameOver handler that stores the placements last to first
GameOverReordered(info) ==
  /\ Connected
  /\ gameOver' = TRUE
  /\ gameOverInfo' =
       Some([placements |->
               [i \in 1..Len(info.placements) |->
                  info.placements[Len(info.placements) + 1 - i]]])
  /\ emitted' = <<>>
  /\ UNCHANGED <<playerName, boardSize, gameState, error, gameResult,
                 eliminationInfo, showStartScreen, lobbyCode, joinCodeInput,
                 lobbyStep, playerNameRef, mySocketId, errorTimeout,
                 justPickedNumber, socketId, timers>>

\* a gameOver handler that raises the flag and stores no outcome
GameOverFlagOnly(info) ==
  /\ Connected
  /\ gameOver' = TRUE
  /\ emitted' = <<>>
  /\ UNCHANGED <<playerName, boardSize, gameState, error, gameResult,
                 gameOverInfo, eliminationInfo, showStartScreen, lobbyCode,
                 joinCodeInput, lobbyStep, playerNameRef, mySocketId,
                 errorTimeout, justPickedNumber, socketId, timers>>

\* newSocket.on("gameOver", ...)
GameOver(info) ==
  /\ Connected
  /\ gameOver' = TRUE
  /\ gameOverInfo' = Some(info)
  /\ emitted' = <<>>
  /\ UNCHANGED <<playerName, boardSize, gameState, error, gameResult,
                 eliminationInfo, showStartScreen, lobbyCode, joinCodeInput,
                 lobbyStep, playerNameRef, mySocketId, errorTimeout,
                 justPickedNumber, socketId, timers>>

----------------------------------------------------------------------------
(* String functions over sequences of characters *)

LowerLetters ==
  <<"a", "b", "c", "d", "e", "f", "g", "h", "i", "j", "k", "l", "m",
    "n", "o", "p", "q", "r", "s", "t", "u", "v", "w", "x", "y", "z">>

UpperLetters ==
  <<"A", "B", "C", "D", "E", "F", "G", "H", "I", "J", "K", "L", "M",
    "N", "O", "P", "Q", "R", "S", "T", "U", "V", "W", "X", "Y", "Z">>

Digits == {"0", "1", "2", "3", "4", "5", "6", "7", "8", "9"}

WhiteSpace == {" ", "\t", "\n"}

\* String.prototype.toUpperCase, one character
UpperChar(c) ==
  IF \E i \in 1..Len(LowerLetters) : LowerLetters[i] = c
    THEN UpperLetters[CHOOSE i \in 1..Len(LowerLetters) : LowerLetters[i] = c]
    ELSE c

\* String.prototype.toUpperCase
ToUpperCase(str) == [i \in 1..Len(str) |-> UpperChar(str[i])]

RECURSIVE TrimStart(_)
TrimStart(str) ==
  IF str # <<>> /\ Head(str) \in WhiteSpace THEN TrimStart(Tail(str)) ELSE str

RECURSIVE TrimEnd(_)
TrimEnd(str) ==
  IF str # <<>> /\ str[Len(str)] \in WhiteSpace
    THEN TrimEnd(SubSeq(str, 1, Len(str) - 1))
    ELSE str

\* String.prototype.trim
Trim(str) == TrimEnd(TrimStart(str))

MinNameLength == 2

CodeLength == 5

\* a name check that does not trim
NameValidUntrimmed(name) == Len(name) >= MinNameLength

\* playerName.trim().length >= 2
NameValid(name) == Len(Trim(name)) >= MinNameLength

\* a code check that looks at the length only
CodePatternLengthOnly(code) == Len(code) = CodeLength

\* /^[A-Z0-9]{5}$/.test(code)
CodePattern(code) ==
  /\ Len(code) = CodeLength
  /\ \A i \in 1..Len(code) : code[i] \in Range(UpperLetters) \cup Digits

\* a JS string used as a condition
Truthy(str) == str # null /\ str # ""

----------------------------------------------------------------------------
(* Outbound messages: socket.emit(name, payload) *)

Message(name, payload) == [name |-> name, payload |-> payload]

Emits(name) == emitted # <<>> /\ emitted[1].name = name

----------------------------------------------------------------------------
(* Inbound events, continued *)

\* a lobbyCreated handler that reads the name its closure captured at mount
LobbyCreatedClosureName(code) ==
  /\ Connected
  /\ lobbyCode' = Some(code)
  /\ lobbyStep' = "creating"
  /\ IF NameValid(ClosurePlayerName)
       THEN /\ emitted' = <<Message("joinLobby",
                              [code |-> code, playerName |-> ClosurePlayerName])>>
            /\ showStartScreen' = FALSE
       ELSE /\ emitted' = <<>>
            /\ UNCHANGED showStartScreen
  /\ UNCHANGED <<playerName, boardSize, gameState, error, gameOver,
                 gameResult, gameOverInfo, eliminationInfo, joinCodeInput,
                 playerNameRef, mySocketId, errorTimeout, justPickedNumber,
                 socketId, timers>>

\* newSocket.on("lobbyCreated", ...)
LobbyCreated(code) ==
  /\ Connected
  /\ lobbyCode' = Some(code)
  /\ lobbyStep' = "creating"
  /\ IF NameValid(playerNameRef)
       THEN /\ emitted' = <<Message("joinLobby",
                              [code |-> code, playerName |-> playerNameRef])>>
            /\ showStartScreen' = FALSE
       ELSE /\ emitted' = <<>>
            /\ UNCHANGED showStartScreen
  /\ UNCHANGED <<playerName, boardSize, gameState, error, gameOver,
                 gameResult, gameOverInfo, eliminationInfo, joinCodeInput,
                 playerNameRef, mySocketId, errorTimeout, justPickedNumber,
                 socketId, timers>>

\* a lobbyJoined handler that takes the board size and keeps the old pool
LobbyJoinedKeepsPool(data) ==
  /\ Connected
  /\ gameState' = [gameState EXCEPT !.status = "waiting",
                                    !.boardSize = data.boardSize]
  /\ showStartScreen' = FALSE
  /\ emitted' = <<>>
  /\ UNCHANGED <<playerName, boardSize, error, gameOver, gameResult,
                 gameOverInfo, eliminationInfo, lobbyCode, joinCodeInput,
                 lobbyStep, playerNameRef, mySocketId, errorTimeout,
                 justPickedNumber, socketId, timers>>

\* a lobbyJoined handler that starts the lobby with an empty roster
LobbyJoinedClearsRoster(data) ==
  /\ Connected
  /\ gameState' = [gameState EXCEPT !.status = "waiting",
                                    !.players = <<>>,
                                    !.boardSize = data.boardSize,
                                    !.numbers = ArrayFrom1(data.boardSize)]
  /\ showStartScreen' = FALSE
  /\ emitted' = <<>>
  /\ UNCHANGED <<playerName, boardSize, error, gameOver, gameResult,
                 gameOverInfo, eliminationInfo, lobbyCode, joinCodeInput,
                 lobbyStep, playerNameRef, mySocketId, errorTimeout,
                 justPickedNumber, socketId, timers>>

\* newSocket.on("lobbyJoined", ...)
LobbyJoined(data) ==
  /\ Connected
  /\ gameState' = [gameState EXCEPT !.status = "waiting",
                                    !.boardSize = data.boardSize,
                                    !.numbers = ArrayFrom1(data.boardSize)]
  /\ showStartScreen' = FALSE
  /\ emitted' = <<>>
  /\ UNCHANGED <<playerName, boardSize, error, gameOver, gameResult,
                 gameOverInfo, eliminationInfo, lobbyCode, joinCodeInput,
                 lobbyStep, playerNameRef, mySocketId, errorTimeout,
                 justPickedNumber, socketId, timers>>

\* a resetNumbers handler that also withdraws the picks in the roster
ResetNumbersClearsPicks ==
  /\ Connected
  /\ error' = DuplicateMessage
  /\ gameState' =
       [gameState EXCEPT !.players =
          [i \in 1..Len(gameState.players) |->
             [gameState.players[i] EXCEPT !.selectedNumber = None]]]
  /\ emitted' = <<>>
  /\ UNCHANGED <<playerName, boardSize, gameOver, gameResult,
                 gameOverInfo, eliminationInfo, showStartScreen, lobbyCode,
                 joinCodeInput, lobbyStep, playerNameRef, mySocketId,
                 errorTimeout, justPickedNumber, socketId, timers>>

\* newSocket.on("resetNumbers", ...)
ResetNumbers ==
  /\ Connected
  /\ error' = DuplicateMessage
  /\ emitted' = <<>>
  /\ UNCHANGED <<playerName, boardSize, gameState, gameOver, gameResult,
                 gameOverInfo, eliminationInfo, showStartScreen, lobbyCode,
                 joinCodeInput, lobbyStep, playerNameRef, mySocketId,
                 errorTimeout, justPickedNumber, socketId, timers>>

\* a lobbyReset handler that leaves the turn holder of the finished round
LobbyResetKeepsTurn(data) ==
  /\ Connected
  /\ gameOver' = FALSE
  /\ gameResult' = null
  /\ gameOverInfo' = None
  /\ gameState' = [gameState EXCEPT !.players = data.players,
                                    !.numbers = data.numbers,
                                    !.gameStarted = FALSE,
                                    !.boardSize = data.boardSize]
  /\ showStartScreen' = FALSE
  /\ emitted' = <<>>
  /\ UNCHANGED <<playerName, boardSize, error, eliminationInfo, lobbyCode,
                 joinCodeInput, lobbyStep, playerNameRef, mySocketId,
                 errorTimeout, justPickedNumber, socketId, timers>>

\* newSocket.on("lobbyReset", ...)
LobbyReset(data) ==
  /\ Connected
  /\ gameOver' = FALSE
  /\ gameResult' = null
  /\ gameOverInfo' = None
  /\ gameState' = [gameState EXCEPT !.players = data.players,
                                    !.numbers = data.numbers,
                                    !.currentTurn = null,
                                    !.currentPlayerName = None,
                                    !.gameStarted = FALSE,
                                    !.boardSize = data.boardSize]
  /\ showStartScreen' = FALSE
  /\ emitted' = <<>>
  /\ UNCHANGED <<playerName, boardSize, error, eliminationInfo, lobbyCode,
                 joinCodeInput, lobbyStep, playerNameRef, mySocketId,
                 errorTimeout, justPickedNumber, socketId, timers>>

----------------------------------------------------------------------------
(* setTimeout callbacks *)

\* () => { justPickedNumber.current = false; }
PickTimerFires ==
  \E i \in 1..Len(timers) :
    /\ timers[i] = "pick"
    /\ Due(timers, i)
    /\ justPickedNumber' = FALSE
    /\ timers' = WithoutTimer(timers, i)
    /\ emitted' = <<>>
    /\ UNCHANGED <<playerName, boardSize, gameState, error, gameOver,
                   gameResult, gameOverInfo, eliminationInfo,
                   showStartScreen, lobbyCode, joinCodeInput, lobbyStep,
                   playerNameRef, mySocketId, errorTimeout, socketId>>

\* () => setError(null)
ErrorTimerFires ==
  \E i \in 1..Len(timers) :
    /\ timers[i] = "error"
    /\ Due(timers, i)
    /\ error' = null
    /\ timers' = WithoutTimer(timers, i)
    /\ emitted' = <<>>
    /\ UNCHANGED <<playerName, boardSize, gameState, gameOver, gameResult,
                   gameOverInfo, eliminationInfo, showStartScreen, lobbyCode,
                   joinCodeInput, lobbyStep, playerNameRef, mySocketId,
                   errorTimeout, justPickedNumber, socketId>>

\* () => setEliminationInfo(null)
BannerTimerFires ==
  \E i \in 1..Len(timers) :
    /\ timers[i] = "banner"
    /\ Due(timers, i)
    /\ eliminationInfo' = None
    /\ timers' = WithoutTimer(timers, i)
    /\ emitted' = <<>>
    /\ UNCHANGED <<playerName, boardSize, gameState, error, gameOver,
                   gameResult, gameOverInfo, showStartScreen, lobbyCode,
                   joinCodeInput, lobbyStep, playerNameRef, mySocketId,
                   errorTimeout, justPickedNumber, socketId>>

----------------------------------------------------------------------------
(* Click handlers (Game.tsx:228-272) *)

\* a handleNumberSelect that writes the pick into the roster before the
\* server confirms it
HandleNumberSelectOptimistic(number) ==
  IF gameOver
    THEN /\ emitted' = <<>>
         /\ UNCHANGED <<playerName, boardSize, gameState, error, gameOver,
                        gameResult, gameOverInfo, eliminationInfo,
                        showStartScreen, lobbyCode, joinCodeInput, lobbyStep,
                        playerNameRef, mySocketId, errorTimeout,
                        justPickedNumber, socketId, timers>>
    ELSE /\ error' = null
         /\ justPickedNumber' = TRUE
         /\ timers' = SetTimeout(timers, "pick")
         /\ emitted' = IF MeCanSelect(gameState.players, mySocketId)
                         THEN <<Message("selectNumber", number)>>
                         ELSE <<>>
         /\ gameState' =
              [gameState EXCEPT !.players =
                 [i \in 1..Len(gameState.players) |->
                    IF gameState.players[i].id = mySocketId
                      THEN [gameState.players[i] EXCEPT
                              !.selectedNumber = Some(number)]
                      ELSE gameState.players[i]]]
         /\ UNCHANGED <<playerName, boardSize, gameOver,
                        gameResult, gameOverInfo, eliminationInfo,
                        showStartScreen, lobbyCode, joinCodeInput, lobbyStep,
                        playerNameRef, mySocketId, errorTimeout, socketId>>

\* handleNumberSelect(number)
HandleNumberSelect(number) ==
  IF gameOver
    THEN /\ emitted' = <<>>
         /\ UNCHANGED <<playerName, boardSize, gameState, error, gameOver,
                        gameResult, gameOverInfo, eliminationInfo,
                        showStartScreen, lobbyCode, joinCodeInput, lobbyStep,
                        playerNameRef, mySocketId, errorTimeout,
                        justPickedNumber, socketId, timers>>
    ELSE /\ error' = null
         /\ justPickedNumber' = TRUE
         /\ timers' = SetTimeout(timers, "pick")
         /\ emitted' = IF MeCanSelect(gameState.players, mySocketId)
                         THEN <<Message("selectNumber", number)>>
                         ELSE <<>>
         /\ UNCHANGED <<playerName, boardSize, gameState, gameOver,
                        gameResult, gameOverInfo, eliminationInfo,
                        showStartScreen, lobbyCode, joinCodeInput, lobbyStep,
                        playerNameRef, mySocketId, errorTimeout, socketId>>

\* a handleNumberElimination that checks the round but not the turn
HandleNumberEliminationAnyTurn(number) ==
  /\ emitted' = IF gameState.gameStarted
                  THEN <<Message("eliminateNumber", number)>>
                  ELSE <<>>
  /\ UNCHANGED <<playerName, boardSize, gameState, error, gameOver,
                 gameResult, gameOverInfo, eliminationInfo, showStartScreen,
                 lobbyCode, joinCodeInput, lobbyStep, playerNameRef,
                 mySocketId, errorTimeout, justPickedNumber, socketId,
                 timers>>

\* handleNumberElimination(number)
HandleNumberElimination(number) ==
  /\ emitted' = IF gameState.gameStarted /\ IsMyTurn(socketId, gameState)
                  THEN <<Message("eliminateNumber", number)>>
                  ELSE <<>>
  /\ UNCHANGED <<playerName, boardSize, gameState, error, gameOver,
                 gameResult, gameOverInfo, eliminationInfo, showStartScreen,
                 lobbyCode, joinCodeInput, lobbyStep, playerNameRef,
                 mySocketId, errorTimeout, justPickedNumber, socketId,
                 timers>>

\* the earlier revision's handlePlayAgain: it resets the round locally and
\* sends nothing
HandlePlayAgainResetsLocally ==
  /\ emitted' = <<>>
  /\ gameOver' = FALSE
  /\ gameResult' = null
  /\ gameOverInfo' = None
  /\ playerName' = <<>>
  /\ playerNameRef' = <<>>
  /\ gameState' = [players |-> <<>>,
                   numbers |-> ArrayFrom1(DefaultBoardSize),
                   currentTurn |-> null,
                   currentPlayerName |-> None,
                   gameStarted |-> FALSE,
                   boardSize |-> DefaultBoardSize,
                   status |-> undefined]
  /\ UNCHANGED <<boardSize, error, eliminationInfo, showStartScreen,
                 lobbyCode, joinCodeInput, lobbyStep, mySocketId,
                 errorTimeout, justPickedNumber, socketId, timers>>

\* handlePlayAgain()
HandlePlayAgain ==
  /\ emitted' = <<Message("playerReadyForReplay", None)>>
  /\ UNCHANGED <<playerName, boardSize, gameState, error, gameOver,
                 gameResult, gameOverInfo, eliminationInfo, showStartScreen,
                 lobbyCode, joinCodeInput, lobbyStep, playerNameRef,
                 mySocketId, errorTimeout, justPickedNumber, socketId,
                 timers>>

\* a handleMainMenu that resets the roster and forgets the turn holder
HandleMainMenuKeepsTurn ==
  /\ emitted' = <<Message("leaveLobby", None)>>
  /\ gameOver' = FALSE
  /\ gameResult' = null
  /\ gameOverInfo' = None
  /\ playerName' = <<>>
  /\ playerNameRef' = <<>>
  /\ gameState' = [players |-> <<>>,
                   numbers |-> ArrayFrom1(DefaultBoardSize),
                   currentTurn |-> gameState.currentTurn,
                   currentPlayerName |-> gameState.currentPlayerName,
                   gameStarted |-> FALSE,
                   boardSize |-> DefaultBoardSize,
                   status |-> undefined]
  /\ showStartScreen' = TRUE
  /\ lobbyCode' = None
  /\ joinCodeInput' = <<>>
  /\ lobbyStep' = "menu"
  /\ UNCHANGED <<boardSize, error, eliminationInfo, mySocketId,
                 errorTimeout, justPickedNumber, socketId, timers>>

\* handleMainMenu(); the playerName effect then copies "" into playerNameRef
HandleMainMenu ==
  /\ emitted' = <<Message("leaveLobby", None)>>
  /\ gameOver' = FALSE
  /\ gameResult' = null
  /\ gameOverInfo' = None
  /\ playerName' = <<>>
  /\ playerNameRef' = <<>>
  /\ gameState' = [players |-> <<>>,
                   numbers |-> ArrayFrom1(DefaultBoardSize),
                   currentTurn |-> null,
                   currentPlayerName |-> None,
                   gameStarted |-> FALSE,
                   boardSize |-> DefaultBoardSize,
                   status |-> undefined]
  /\ showStartScreen' = TRUE
  /\ lobbyCode' = None
  /\ joinCodeInput' = <<>>
  /\ lobbyStep' = "menu"
  /\ UNCHANGED <<boardSize, error, eliminationInfo, mySocketId,
                 errorTimeout, justPickedNumber, socketId, timers>>

----------------------------------------------------------------------------
(* What the rendered screen offers (Game.tsx:281-764) *)

\* the (You) marker of the lobby roster, row i
YouMarker(i) == gameState.players[i].name = playerName

\* the (Party Leader) marker of the lobby roster, row i
LeaderMarker(i) == i = 1

\* the earlier revision's leader check: by display name
StartButtonShownByName ==
  /\ Len(gameState.players) > 1
  /\ gameState.players[1].name = playerName

\* the Start Game button is rendered
StartButtonShown ==
  /\ Len(gameState.players) > 1
  /\ gameState.players[1].id = mySocketId

\* the Start Game button is rendered and not disabled
StartButtonEnabled == StartButtonShown /\ AllSelected(gameState.players)

\* the number selection grid is rendered
SelectionGridShown == MeCanSelect(gameState.players, mySocketId)

\* a board button is rendered and not disabled
BoardButtonEnabled == ~(socketId # gameState.currentTurn)

\* the Current Turn badge of the player list, row i
TurnBadge(i) ==
  /\ ~gameState.players[i].isEliminated
  /\ IsMyTurn(socketId, gameState)
  /\ gameState.players[i].name = playerName

\* the controls the rendered screen offers and does not disable
ControlsEnabled ==
  CASE Phase = "Menu" -> {"Create Game", "Join Game"}
    [] Phase = "CreateForm" ->
         {"name", "board size", "Create Lobby", "Back"}
    [] Phase = "JoinForm" -> {"name", "code", "Join Lobby", "Back"}
    [] Phase = "AwaitingLobbyCode" -> {}
    [] Phase = "GameOver" -> {"Play Again", "Main Menu"}
    [] Phase = "LobbyWait" ->
         (IF StartButtonEnabled THEN {"Start Game"} ELSE {})
           \cup (IF SelectionGridShown /\ gameState.numbers # <<>>
                   THEN {"selection grid"} ELSE {})
    [] Phase = "Playing" ->
         IF BoardButtonEnabled /\ gameState.numbers # <<>>
           THEN {"board"} ELSE {}

----------------------------------------------------------------------------
(* User actions: a click or an input on the screen that is rendered *)

\* numbers the user clicks are among the first MaxClick of the pool
MaxClick == 2

Clickable(numbers) == {numbers[i] : i \in 1..(IF Len(numbers) < MaxClick
                                                THEN Len(numbers)
                                                ELSE MaxClick)}

MenuUnchanged ==
  UNCHANGED <<boardSize, gameState, gameOver, gameResult, gameOverInfo,
              eliminationInfo, showStartScreen, lobbyCode, mySocketId,
              errorTimeout, justPickedNumber, socketId, timers>>

\* Create Game
ClickCreateGame ==
  /\ Phase = "Menu"
  /\ lobbyStep' = "create"
  /\ emitted' = <<>>
  /\ UNCHANGED <<playerName, playerNameRef, joinCodeInput, error>>
  /\ MenuUnchanged

\* Join Game
ClickJoinGame ==
  /\ Phase = "Menu"
  /\ lobbyStep' = "join"
  /\ emitted' = <<>>
  /\ UNCHANGED <<playerName, playerNameRef, joinCodeInput, error>>
  /\ MenuUnchanged

\* the name input's onChange, then the playerName effect
TypeName(value) ==
  /\ Phase \in {"CreateForm", "JoinForm"}
  /\ value # playerName
  /\ playerName' = value
  /\ playerNameRef' = value
  /\ error' = IF Truthy(error) THEN null ELSE error
  /\ emitted' = <<>>
  /\ UNCHANGED <<joinCodeInput, lobbyStep>>
  /\ MenuUnchanged

\* the board size <select>'s onChange
SelectBoardSize(size) ==
  /\ Phase = "CreateForm"
  /\ size # boardSize
  /\ boardSize' = size
  /\ emitted' = <<>>
  /\ UNCHANGED <<playerName, gameState, error, gameOver, gameResult,
                 gameOverInfo, eliminationInfo, showStartScreen, lobbyCode,
                 joinCodeInput, lobbyStep, playerNameRef, mySocketId,
                 errorTimeout, justPickedNumber, socketId, timers>>

\* Create Lobby
ClickCreateLobby ==
  /\ Phase = "CreateForm"
  /\ IF ~NameValid(playerName)
       THEN /\ error' = NameTooShortMessage
            /\ emitted' = <<>>
            /\ UNCHANGED lobbyStep
       ELSE /\ emitted' = <<Message("createLobby", [boardSize |-> boardSize])>>
            /\ lobbyStep' = "creating"
            /\ UNCHANGED error
  /\ UNCHANGED <<playerName, playerNameRef, joinCodeInput>>
  /\ MenuUnchanged

\* Back, on either form
ClickBack ==
  /\ Phase \in {"CreateForm", "JoinForm"}
  /\ error' = null
  /\ lobbyStep' = "menu"
  /\ emitted' = <<>>
  /\ UNCHANGED <<playerName, playerNameRef, joinCodeInput>>
  /\ MenuUnchanged

\* the code input's onChange (maxLength 5)
TypeCode(value) ==
  /\ Phase = "JoinForm"
  /\ Len(value) <= CodeLength
  /\ ToUpperCase(value) # joinCodeInput
  /\ joinCodeInput' = ToUpperCase(value)
  /\ error' = IF Truthy(error) THEN null ELSE error
  /\ emitted' = <<>>
  /\ UNCHANGED <<playerName, playerNameRef, lobbyStep>>
  /\ MenuUnchanged

\* the earlier revision's Join Lobby: an accepted submit hides the start
\* screen itself
ClickJoinLobbyEntersLobby ==
  /\ Phase = "JoinForm"
  /\ IF ~NameValid(playerName)
       THEN /\ error' = NameTooShortMessage
            /\ emitted' = <<>>
            /\ UNCHANGED <<lobbyCode, showStartScreen>>
       ELSE IF Len(Trim(joinCodeInput)) # CodeLength
       THEN /\ error' = CodeLengthMessage
            /\ emitted' = <<>>
            /\ UNCHANGED <<lobbyCode, showStartScreen>>
       ELSE IF ~CodePattern(Trim(joinCodeInput))
       THEN /\ error' = CodePatternMessage
            /\ emitted' = <<>>
            /\ UNCHANGED <<lobbyCode, showStartScreen>>
       ELSE /\ error' = null
            /\ lobbyCode' = Some(Trim(joinCodeInput))
            /\ showStartScreen' = FALSE
            /\ emitted' = <<Message("joinLobby",
                              [code |-> Trim(joinCodeInput),
                               playerName |-> playerName])>>
  /\ UNCHANGED <<playerName, boardSize, gameState, gameOver, gameResult,
                 gameOverInfo, eliminationInfo, joinCodeInput, lobbyStep,
                 playerNameRef, mySocketId, errorTimeout, justPickedNumber,
                 socketId, timers>>

\* Join Lobby
ClickJoinLobby ==
  /\ Phase = "JoinForm"
  /\ IF ~NameValid(playerName)
       THEN /\ error' = NameTooShortMessage
            /\ emitted' = <<>>
            /\ UNCHANGED lobbyCode
       ELSE IF Len(Trim(joinCodeInput)) # CodeLength
       THEN /\ error' = CodeLengthMessage
            /\ emitted' = <<>>
            /\ UNCHANGED lobbyCode
       ELSE IF ~CodePattern(Trim(joinCodeInput))
       THEN /\ error' = CodePatternMessage
            /\ emitted' = <<>>
            /\ UNCHANGED lobbyCode
       ELSE /\ error' = null
            /\ lobbyCode' = Some(Trim(joinCodeInput))
            /\ emitted' = <<Message("joinLobby",
                              [code |-> Trim(joinCodeInput),
                               playerName |-> playerName])>>
  /\ UNCHANGED <<playerName, boardSize, gameState, gameOver, gameResult,
                 gameOverInfo, eliminationInfo, showStartScreen,
                 joinCodeInput, lobbyStep, playerNameRef, mySocketId,
                 errorTimeout, justPickedNumber, socketId, timers>>

\* Play Again, on the game-over screen
ClickPlayAgain == Phase = "GameOver" /\ HandlePlayAgain

\* Main Menu, on the game-over screen
ClickMainMenu == Phase = "GameOver" /\ HandleMainMenu

\* Start Game, on the lobby screen
ClickStartGame ==
  /\ Phase = "LobbyWait"
  /\ StartButtonEnabled
  /\ emitted' = IF AllSelected(gameState.players)
                  THEN <<Message("startGame", None)>>
                  ELSE <<>>
  /\ UNCHANGED <<playerName, boardSize, gameState, error, gameOver,
                 gameResult, gameOverInfo, eliminationInfo, showStartScreen,
                 lobbyCode, joinCodeInput, lobbyStep, playerNameRef,
                 mySocketId, errorTimeout, justPickedNumber, socketId,
                 timers>>

\* a button of the number selection grid, on the lobby screen
ClickSelectNumber(number) ==
  /\ Phase = "LobbyWait"
  /\ SelectionGridShown
  /\ number \in Clickable(gameState.numbers)
  /\ HandleNumberSelect(number)

\* a button of the game board, on the playing screen
ClickBoardNumber(number) ==
  /\ Phase = "Playing"
  /\ BoardButtonEnabled
  /\ number \in Clickable(gameState.numbers)
  /\ HandleNumberElimination(number)

----------------------------------------------------------------------------
(* Payloads and inputs *)

Al == <<"A", "l">>

Bo == <<"B", "o">>

Player(id, name, selected, eliminated) ==
  [id |-> id,
   name |-> name,
   selectedNumber |-> selected,
   isEliminated |-> eliminated,
   placement |-> IF eliminated THEN Some(1) ELSE None]

Turn(id, name, numbers) ==
  [currentTurn |-> id, currentPlayerName |-> Some(name), numbers |-> numbers]

Elimination(number, id, name, numbers) ==
  [number |-> number,
   remainingNumbers |-> numbers,
   currentTurn |-> id,
   currentPlayerName |-> Some(name)]

Banner(name, number, placement, total) ==
  [playerName |-> name,
   number |-> number,
   placement |-> placement,
   totalPlayers |-> total]

Outcome(placements) == [placements |-> placements]

Placement(name, number, placement) ==
  [name |-> name, number |-> number, placement |-> placement]

\* the board sizes the <select> offers
BoardSizeOptions == {10, 20, 30, 40, 50, 60, 70, 80, 90, 100}

Code1 == <<"A", "B", "C", "D", "1">>

\* rosters: the local participant is s1; two participants may share a name
RosterUnpicked ==
  <<Player("s1", Al, None, FALSE), Player("s2", Al, Some(1), FALSE)>>

RosterPicked ==
  <<Player("s1", Al, Some(2), FALSE), Player("s2", Al, Some(1), FALSE)>>

RosterGuestPicked ==
  <<Player("s2", Bo, Some(1), FALSE), Player("s1", Al, Some(2), FALSE)>>

RosterGuestOut ==
  <<Player("s2", Bo, Some(1), FALSE), Player("s1", Al, Some(2), TRUE)>>

RosterAlone == <<Player("s1", Al, None, FALSE)>>

----------------------------------------------------------------------------
(* Specifications.  Each draws the socket ids, the payloads of the inbound  *)
(* events and the user's input from small sets and caps the number of       *)
(* pending setTimeout callbacks.                                            *)

\* at most max setTimeout callbacks are pending after the step
TimersWithin(max) == Len(timers') <= max

\* Every handler of the component, over the inputs of in.
NextOver(in) ==
  \/ \E id \in in.ids : Connect(id)
  \/ Disconnect
  \/ \E players \in in.rosters : PlayerList(players)
  \/ \E data \in in.turns : GameStarted(data)
  \/ \E data \in in.eliminations : NumberEliminated(data)
  \/ \E message \in in.errors :
       Error(message) /\ TimersWithin(in.maxTimers)
  \/ \E data \in in.results : YouWon(data) /\ TimersWithin(in.maxTimers)
  \/ \E data \in in.results : YouLost(data) /\ TimersWithin(in.maxTimers)
  \/ \E info \in in.banners :
       PlayerEliminated(info) /\ TimersWithin(in.maxTimers)
  \/ \E info \in in.outcomes : GameOver(info)
  \/ \E code \in in.codes : LobbyCreated(code)
  \/ \E data \in in.joins : LobbyJoined(data)
  \/ ResetNumbers
  \/ \E data \in in.resets : LobbyReset(data)
  \/ PickTimerFires
  \/ ErrorTimerFires
  \/ BannerTimerFires
  \/ ClickCreateGame
  \/ ClickJoinGame
  \/ \E value \in in.typedNames : TypeName(value)
  \/ \E size \in in.sizes : SelectBoardSize(size)
  \/ ClickCreateLobby
  \/ ClickBack
  \/ \E value \in in.typedCodes : TypeCode(value)
  \/ ClickJoinLobby
  \/ ClickPlayAgain
  \/ ClickMainMenu
  \/ ClickStartGame
  \/ \E number \in Clickable(gameState.numbers) :
       ClickSelectNumber(number) /\ TimersWithin(in.maxTimers)
  \/ \E number \in Clickable(gameState.numbers) : ClickBoardNumber(number)

\* The whole component with one payload of each kind, all of one lobby of
\* the default board size.
MaxTimersAll == 1

AllInputs ==
  [ids |-> {"s1"},
   rosters |-> {RosterUnpicked, RosterPicked},
   turns |-> {Turn("s1", Al, ArrayFrom1(DefaultBoardSize))},
   eliminations |->
     {Elimination(1, "s2", Al, Tail(ArrayFrom1(DefaultBoardSize)))},
   errors |-> {"Number already taken"},
   results |-> {[placement |-> 1, totalPlayers |-> 2, number |-> 2]},
   banners |-> {Banner(Al, 1, 1, 2)},
   outcomes |-> {Outcome(<<Placement(Al, 2, 1), Placement(Al, 1, 2)>>)},
   codes |-> {Code1},
   joins |-> {[boardSize |-> DefaultBoardSize]},
   resets |-> {[players |-> RosterUnpicked,
               numbers |-> ArrayFrom1(DefaultBoardSize),
               boardSize |-> DefaultBoardSize]},
   typedNames |-> {Al},
   sizes |-> {10},
   typedCodes |-> {<<"a", "b", "c", "d", "1">>},
   maxTimers |-> MaxTimersAll]

Next == NextOver(AllInputs)

Spec == Init /\ [][Next]_vars

----------------------------------------------------------------------------
(* The snapshot under a well-behaved server: every event keeps the roster,  *)
(* the turn holder and the pool consistent with the snapshot it is applied  *)
(* to (spec.md 4.2: "if the server's events are well-formed").              *)

WellFormedRoster(players) ==
  UniqueIds(players) /\ TurnHolderOk(players, gameState.currentTurn)

WellFormedTurn(turn, numbers) ==
  /\ turn # null
  /\ TurnHolderOk(gameState.players, turn)
  /\ PoolOk(numbers, gameState.boardSize)

WellFormedReset(data) ==
  UniqueIds(data.players) /\ PoolOk(data.numbers, data.boardSize)

MaxTimersSnapshot == 1

SnapshotInputs ==
  [ids |-> {"s1"},
   rosters |-> {<<>>, RosterAlone, RosterUnpicked, RosterPicked,
                RosterGuestPicked, RosterGuestOut,
                <<Player("s1", Al, None, FALSE), Player("s1", Bo, None, FALSE)>>},
   turns |-> {Turn("s1", Al, ArrayFrom1(10)), Turn("s2", Bo, <<2, 3>>),
              Turn("s2", Bo, <<25>>)},
   eliminations |-> {Elimination(1, "s2", Bo, <<2, 3>>),
                     Elimination(2, "s1", Al, <<3>>),
                     Elimination(24, "s1", Al, <<25, 30>>)},
   outcomes |-> {Outcome(<<Placement(Al, 2, 1), Placement(Bo, 1, 2)>>)},
   joins |-> {[boardSize |-> 10], [boardSize |-> 30]},
   resets |-> {[players |-> RosterUnpicked, numbers |-> ArrayFrom1(10),
                boardSize |-> 10],
               [players |-> RosterAlone, numbers |-> <<25>>,
                boardSize |-> 30]},
   codes |-> {Code1},
   typedNames |-> {Al},
   sizes |-> {10},
   typedCodes |-> {Code1},
   maxTimers |-> MaxTimersSnapshot]

NextSnapshot(in) ==
  \/ \E id \in in.ids : Connect(id)
  \/ \E players \in in.rosters :
       WellFormedRoster(players) /\ PlayerList(players)
  \/ \E data \in in.turns :
       WellFormedTurn(data.currentTurn, data.numbers) /\ GameStarted(data)
  \/ \E data \in in.eliminations :
       /\ WellFormedTurn(data.currentTurn, data.remainingNumbers)
       /\ NumberEliminated(data)
  \/ \E info \in in.outcomes : GameOver(info)
  \/ \E data \in in.joins : LobbyJoined(data)
  \/ \E data \in in.resets : WellFormedReset(data) /\ LobbyReset(data)
  \/ \E code \in in.codes : LobbyCreated(code)
  \/ PickTimerFires
  \/ ClickCreateGame
  \/ ClickJoinGame
  \/ \E value \in in.typedNames : TypeName(value)
  \/ \E size \in in.sizes : SelectBoardSize(size)
  \/ ClickCreateLobby
  \/ ClickBack
  \/ \E value \in in.typedCodes : TypeCode(value)
  \/ ClickJoinLobby
  \/ ClickPlayAgain
  \/ ClickMainMenu
  \/ ClickStartGame
  \/ \E number \in Clickable(gameState.numbers) :
       ClickSelectNumber(number) /\ TimersWithin(in.maxTimers)
  \/ \E number \in Clickable(gameState.numbers) : ClickBoardNumber(number)

SpecSnapshot == Init /\ [][NextSnapshot(SnapshotInputs)]_vars

----------------------------------------------------------------------------
(* The user's intents in the lobby and in the game: rosters in which the    *)
(* local participant is absent, first or second, has picked or not, and     *)
(* shares a name or not; the socket may drop and reconnect under a new id.  *)

RosterNamesake ==
  <<Player("s2", Al, None, FALSE), Player("s1", Al, Some(2), FALSE)>>

RosterNamesakePicked ==
  <<Player("s2", Al, Some(1), FALSE), Player("s1", Bo, Some(2), FALSE)>>

MaxTimersIntent == 2

IntentInputs ==
  [ids |-> {"s1", "s3"},
   rosters |-> {RosterAlone, RosterUnpicked, RosterPicked, RosterGuestPicked,
                RosterNamesake, RosterNamesakePicked},
   turns |-> {Turn("s1", Al, <<1, 2, 3>>), Turn("s2", Al, <<1, 2, 3>>)},
   codes |-> {Code1},
   joins |-> {[boardSize |-> 10]},
   typedNames |-> {Al, Bo},
   maxTimers |-> MaxTimersIntent]

NextIntent(in) ==
  \/ \E id \in in.ids : Connect(id)
  \/ Disconnect
  \/ \E players \in in.rosters : PlayerList(players)
  \/ \E data \in in.turns : GameStarted(data)
  \/ \E code \in in.codes : LobbyCreated(code)
  \/ \E data \in in.joins : LobbyJoined(data)
  \/ PickTimerFires
  \/ ClickCreateGame
  \/ \E value \in in.typedNames : TypeName(value)
  \/ ClickCreateLobby
  \/ ClickStartGame
  \/ \E number \in Clickable(gameState.numbers) :
       ClickSelectNumber(number) /\ TimersWithin(in.maxTimers)
  \/ \E number \in Clickable(gameState.numbers) : ClickBoardNumber(number)

SpecIntent == Init /\ [][NextIntent(IntentInputs)]_vars

\* The same, with handleNumberElimination also called where the screen
\* offers no enabled board button, as a caller of the handler alone would.
NextDirect(in) ==
  \/ NextIntent(in)
  \/ \E number \in Clickable(gameState.numbers) :
       HandleNumberElimination(number)

SpecDirect == Init /\ [][NextDirect(IntentInputs)]_vars

----------------------------------------------------------------------------
(* Notifications and their timers: errors, the duplicate-pick message,      *)
(* banners, the suppression window of handleNumberSelect.                   *)

MaxTimersNotices == 3

NoticeInputs ==
  [ids |-> {"s1"},
   rosters |-> {RosterUnpicked, RosterPicked},
   errors |-> {"Number already taken", "Lobby not found"},
   results |-> {[placement |-> 1, totalPlayers |-> 2, number |-> 2]},
   banners |-> {Banner(Bo, 1, 1, 2)},
   turns |-> {Turn("s1", Al, <<1, 2, 3>>)},
   joins |-> {[boardSize |-> 10]},
   typedNames |-> {Al},
   maxTimers |-> MaxTimersNotices]

NextNotices(in) ==
  \/ \E id \in in.ids : Connect(id)
  \/ \E players \in in.rosters : PlayerList(players)
  \/ \E data \in in.turns : GameStarted(data)
  \/ \E data \in in.joins : LobbyJoined(data)
  \/ \E message \in in.errors :
       Error(message) /\ TimersWithin(in.maxTimers)
  \/ \E data \in in.results : YouWon(data) /\ TimersWithin(in.maxTimers)
  \/ \E data \in in.results : YouLost(data) /\ TimersWithin(in.maxTimers)
  \/ \E info \in in.banners :
       PlayerEliminated(info) /\ TimersWithin(in.maxTimers)
  \/ ResetNumbers
  \/ PickTimerFires
  \/ ErrorTimerFires
  \/ BannerTimerFires
  \/ ClickJoinGame
  \/ \E value \in in.typedNames : TypeName(value)
  \/ ClickJoinLobby
  \/ \E number \in Clickable(gameState.numbers) :
       ClickSelectNumber(number) /\ TimersWithin(in.maxTimers)

SpecNotices == Init /\ [][NextNotices(NoticeInputs)]_vars

----------------------------------------------------------------------------
(* The start screens: names and codes that pass and fail each check of the  *)
(* forms, typed in any order, with the server's replies to a submit.        *)

MaxTimersForms == 1

FormInputs ==
  [ids |-> {"s1"},
   typedNames |-> {<<"A">>, Al, <<" ", "A", " ">>, <<" ", "B", "o">>},
   typedCodes |-> {<<"a", "b", "c", "d", "1">>, <<"a", "b", "c", "d">>,
                   <<"a", "b", "-", "d", "1">>, <<" ", "a", "b", "c", "d">>,
                   <<"a", "b", "c", "d", "1", "2">>},
   sizes |-> {10},
   codes |-> {Code1},
   joins |-> {[boardSize |-> 10]},
   errors |-> {"Lobby not found"},
   maxTimers |-> MaxTimersForms]

NextForms(in) ==
  \/ \E id \in in.ids : Connect(id)
  \/ ClickCreateGame
  \/ ClickJoinGame
  \/ \E value \in in.typedNames \cup {<<>>} : TypeName(value)
  \/ \E size \in in.sizes \cup {DefaultBoardSize} : SelectBoardSize(size)
  \/ ClickCreateLobby
  \/ ClickBack
  \/ \E value \in in.typedCodes \cup {<<>>} : TypeCode(value)
  \/ ClickJoinLobby
  \/ \E code \in in.codes : LobbyCreated(code)
  \/ \E data \in in.joins : LobbyJoined(data)
  \/ \E message \in in.errors :
       Error(message) /\ TimersWithin(in.maxTimers)
  \/ ErrorTimerFires

SpecForms == Init /\ [][NextForms(FormInputs)]_vars

\* The same with a server that sends lobbyCreated only in answer to a
\* createLobby, that is while the client shows the Creating Lobby screen.
NextEntry(in) ==
  \/ \E id \in in.ids : Connect(id)
  \/ ClickCreateGame
  \/ ClickJoinGame
  \/ \E value \in in.typedNames \cup {<<>>} : TypeName(value)
  \/ \E size \in in.sizes \cup {DefaultBoardSize} : SelectBoardSize(size)
  \/ ClickCreateLobby
  \/ ClickBack
  \/ \E value \in in.typedCodes \cup {<<>>} : TypeCode(value)
  \/ ClickJoinLobby
  \/ \E code \in in.codes :
       Phase = "AwaitingLobbyCode" /\ LobbyCreated(code)
  \/ \E data \in in.joins : LobbyJoined(data)
  \/ \E message \in in.errors :
       Error(message) /\ TimersWithin(in.maxTimers)
  \/ ErrorTimerFires

SpecEntry == Init /\ [][NextEntry(FormInputs)]_vars

----------------------------------------------------------------------------
(* Session snapshot: roster, turn holder, started flag, pool *)

\* C1: after a playerList event the roster is exactly the payload of that
\* event, whatever the roster was before: nothing of the old roster is kept.
C1_RosterReplaced ==
  [][\A players \in SnapshotInputs.rosters :
       PlayerList(players) => gameState'.players = players]_vars

\* a roster of one row has replaced a longer one or an empty one
C1_Witness == Connected /\ gameState.players = RosterGuestOut

\* C2: under well-formed events, a turn holder that is present is the id of
\* a participant of the roster who is not eliminated.
C2_TurnHolderInRoster ==
  TurnHolderOk(gameState.players, gameState.currentTurn)

C2_Witness ==
  /\ gameState.currentTurn = "s2"
  /\ gameState.players = RosterGuestOut
  /\ Phase = "Playing"

\* C3 as stated: once the gameOver event is applied, gameStarted is false.
C3_StartedFalseAfterGameOver ==
  [][(\E info \in SnapshotInputs.outcomes : GameOver(info))
       => ~gameState'.gameStarted]_vars

\* C3 amended: gameStarted becomes true only by a gameStarted event and,
\* once true, stays true through the gameOver event until a lobbyReset
\* event or the leave action clears it.
C3_StartedUntilResetOrLeave ==
  [][/\ (~gameState.gameStarted /\ gameState'.gameStarted)
          => \E data \in SnapshotInputs.turns : GameStarted(data)
     /\ (gameState.gameStarted /\ ~gameState'.gameStarted)
          => \/ \E data \in SnapshotInputs.resets : LobbyReset(data)
             \/ HandleMainMenu
     /\ (\E info \in SnapshotInputs.outcomes : GameOver(info))
          => gameState'.gameStarted = gameState.gameStarted]_vars

\* the game-over screen is up and the snapshot still says started
C3_Witness == Phase = "GameOver" /\ gameState.gameStarted

\* C4: under well-formed events the pool is a subset of 1..boardSize, also
\* after leaving to the menu and joining a lobby of another board size.
C4_PoolWithinBoard == PoolOk(gameState.numbers, gameState.boardSize)

\* a lobby of board size 30 was joined after the pool had been cut down
C4_Witness ==
  /\ gameState.boardSize = 30
  /\ gameState.numbers = <<25, 30>>
  /\ lobbyCode = Some(Code1)
  /\ Phase = "Playing"

----------------------------------------------------------------------------
(* Self-identification and phases *)

\* C5: on the lobby and playing screens a row is marked as the local
\* player, as the leader who may start, or as the turn holder only if its
\* id is the captured self-identity, also when two rows share a name.
C5_SelfMarkedById ==
  \A i \in 1..Len(gameState.players) :
    /\ (Phase = "LobbyWait" /\ YouMarker(i))
         => gameState.players[i].id = mySocketId
    /\ (Phase = "LobbyWait" /\ StartButtonShown /\ LeaderMarker(i))
         => gameState.players[i].id = mySocketId
    /\ (Phase = "Playing" /\ TurnBadge(i))
         => gameState.players[i].id = mySocketId

\* C6: the gameOver flag is set only by a gameOver event and the started
\* flag only by a gameStarted event; from the lobby, playing and game-over
\* screens the playing screen is entered only by a gameStarted event and
\* the game-over screen only by a gameOver event.
C6_PhasesByServerEvents ==
  [][/\ (~gameOver /\ gameOver')
          => \E info \in AllInputs.outcomes : GameOver(info)
     /\ (~gameState.gameStarted /\ gameState'.gameStarted)
          => \E data \in AllInputs.turns : GameStarted(data)
     /\ (~showStartScreen /\ Phase # "Playing" /\ Phase' = "Playing")
          => \E data \in AllInputs.turns : GameStarted(data)
     /\ (~showStartScreen /\ Phase # "GameOver" /\ Phase' = "GameOver")
          => \E info \in AllInputs.outcomes : GameOver(info)]_vars

\* a banner of youWon or youLost is up while the game goes on
C6_Witness ==
  /\ Phase = "Playing"
  /\ eliminationInfo # None
  /\ eliminationInfo[1].playerName = ClosurePlayerName

----------------------------------------------------------------------------
(* Intents *)

\* the row Array.prototype.find returns for the captured self-identity
MeById(i) ==
  /\ i \in 1..Len(gameState.players)
  /\ gameState.players[i].id = mySocketId
  /\ \A j \in 1..(i - 1) : gameState.players[j].id # mySocketId

\* C7: handleNumberElimination emits eliminateNumber if the round is started
\* and the self-identity (the socket's id, which is then the captured one)
\* is the turn holder; in every other state it emits nothing; it never
\* changes the state.
C7_EliminateOnlyOnMyTurn ==
  [][\A number \in Range(gameState.numbers) :
       HandleNumberElimination(number) =>
         /\ IF /\ gameState.gameStarted
               /\ socketId = gameState.currentTurn
               /\ mySocketId = gameState.currentTurn
              THEN emitted' = <<Message("eliminateNumber", number)>>
              ELSE emitted' = <<>>
         /\ UNCHANGED <<playerName, boardSize, gameState, error, gameOver,
                        gameResult, gameOverInfo, eliminationInfo,
                        showStartScreen, lobbyCode, joinCodeInput, lobbyStep,
                        playerNameRef, mySocketId, errorTimeout,
                        justPickedNumber, socketId, timers>>]_vars

C7_Witness == Emits("eliminateNumber") /\ gameState.currentTurn = mySocketId

\* C8: selectNumber is emitted only from a state whose snapshot has a row
\* with the captured self-identity as id, that row has no selectedNumber,
\* and gameStarted is false; so no call made while the snapshot shows a
\* selection emits.
C8_SelectOnlyUnpickedInLobby ==
  [][Emits("selectNumber")' =>
       /\ \E i \in 1..Len(gameState.players) :
            MeById(i) /\ gameState.players[i].selectedNumber = None
       /\ ~gameState.gameStarted]_vars

\* the local participant, unpicked, has just clicked a number of the grid
C8_Witness ==
  /\ Emits("selectNumber")
  /\ playerName = Al
  /\ gameState.players = RosterUnpicked

\* C9: startGame is emitted only from a state where the row at index 0 has
\* the captured self-identity as id and every row has a selectedNumber.
C9_StartOnlyLeaderAllPicked ==
  [][Emits("startGame")' =>
       /\ Len(gameState.players) >= 1
       /\ gameState.players[1].id = mySocketId
       /\ \A i \in 1..Len(gameState.players) :
            gameState.players[i].selectedNumber # None]_vars

C9_Witness == Emits("startGame") /\ gameState.players = RosterPicked

----------------------------------------------------------------------------
(* Notifications *)

\* C10: an error event that arrives while the 500 ms timer of a
\* handleNumberSelect call is pending changes neither the displayed error
\* nor the timers; one that arrives with no such timer pending is displayed.
C10_ErrorInWindowDropped ==
  [][\A message \in NoticeInputs.errors :
       Error(message) =>
         IF Pending("pick")
           THEN error' = error /\ timers' = timers
           ELSE error' = message]_vars

\* C11: at most one suppression timer is pending, and while one is pending
\* the suppression flag is set: a second handleNumberSelect replaces the
\* timer of the first, so the first never ends the window of the second.
C11_SelectionWindowRearmed ==
  /\ PendingCount("pick") <= 1
  /\ Pending("pick") => justPickedNumber

\* C12: at most one banner clear is pending, and while one is pending the
\* banner it belongs to is displayed: the clear of an earlier banner is
\* cancelled when a newer banner arrives and so never clears the newer one.
C12_BannerOutlivesEarlierClear ==
  /\ PendingCount("banner") <= 1
  /\ Pending("banner") => eliminationInfo # None

\* C13: there is one banner slot.  A banner event puts its banner in the
\* slot at once, whatever was there, and arms a clear as the newest
\* callback; a displayed banner always has a clear pending, its own being
\* the newest; and the slot is empty right after any banner clear runs.  So
\* a banner is gone when its own 3000 ms clear has run unless a newer one
\* arrived, and none is queued.
C13_BannerSlotDecays ==
  [][/\ \A info \in NoticeInputs.banners :
          PlayerEliminated(info) =>
            /\ eliminationInfo' = Some(info)
            /\ timers' = Append(timers, "banner")
     /\ \A data \in NoticeInputs.results :
          YouWon(data) \/ YouLost(data) =>
            /\ eliminationInfo' = Some(SelfBanner(data))
            /\ timers' = Append(timers, "banner")
     /\ BannerTimerFires => eliminationInfo' = None
     /\ eliminationInfo' # None => Pending("banner")'
     /\ Len(eliminationInfo') <= 1]_vars

\* a second banner has replaced the first while the clear of the first is
\* still pending
C13_Witness ==
  /\ eliminationInfo = Some(Banner(Bo, 1, 1, 2))
  /\ PendingCount("banner") = 2

\* C14: whenever the duplicate-pick message or a generic error is displayed
\* a clear of the error slot is pending, and whenever a banner is displayed
\* a clear of the banner slot is pending.
C14_NotificationsHaveClear ==
  /\ error \in {DuplicateMessage} \cup NoticeInputs.errors => Pending("error")
  /\ eliminationInfo # None => Pending("banner")

\* C15: a playerList that arrives on the lobby screen while the
\* duplicate-pick message of resetNumbers is displayed, and in which the
\* row of the local participant has no selectedNumber, leaves the selection
\* grid offered; and every click on the grid emits selectNumber with the
\* number clicked.
C15_SelectionReenabled ==
  [][/\ \A players \in NoticeInputs.rosters :
          /\ PlayerList(players)
          /\ error = DuplicateMessage
          /\ Phase = "LobbyWait"
          /\ \E i \in 1..Len(players) :
               players[i].id = mySocketId /\ players[i].selectedNumber = None
          => Phase' = "LobbyWait" /\ SelectionGridShown' /\ ~gameOver'
     /\ \A number \in 1..DefaultBoardSize :
          ClickSelectNumber(number) =>
            emitted' = <<Message("selectNumber", number)>>]_vars

\* the local participant picked less than 500 ms ago, the duplicate-pick
\* message is displayed, the roster shows the pick withdrawn and the grid
\* is offered
C15_Witness ==
  /\ error = DuplicateMessage
  /\ Pending("pick")
  /\ gameState.players = RosterUnpicked
  /\ Phase = "LobbyWait"
  /\ SelectionGridShown

----------------------------------------------------------------------------
(* Leaving, the end of a round, replay *)

\* C16: every handleMainMenu step emits leaveLobby and ends, in that same
\* step, in the initial Menu defaults: phase Menu, empty roster, pool 1..20,
\* board size 20, no turn holder, not started, no round outcome, no lobby
\* code, empty name and code inputs, board-size choice 20, no error and no
\* banner displayed.
C16_LeaveResetsEverything ==
  [][HandleMainMenu =>
       /\ emitted' = <<Message("leaveLobby", None)>>
       /\ Phase' = "Menu"
       /\ gameState'.players = <<>>
       /\ gameState'.numbers = ArrayFrom1(DefaultBoardSize)
       /\ gameState'.boardSize = DefaultBoardSize
       /\ gameState'.currentTurn = null
       /\ gameState'.currentPlayerName = None
       /\ ~gameState'.gameStarted
       /\ ~gameOver'
       /\ gameResult' = null
       /\ gameOverInfo' = None
       /\ lobbyCode' = None
       /\ playerName' = <<>>
       /\ joinCodeInput' = <<>>
       /\ boardSize' = DefaultBoardSize
       /\ error' = null
       /\ eliminationInfo' = None]_vars

\* C17: a gameOver event stores its placements as received, same entries in
\* the same order, and when it arrives on a lobby screen the client is then
\* on the game-over screen; the stored outcome changes only by a gameOver
\* event, a lobbyReset event or the leave action, and the latter two
\* discard it.
C17_OutcomeAsReceived ==
  [][/\ \A info \in SnapshotInputs.outcomes :
          GameOver(info) =>
            /\ gameOverInfo' = Some(info)
            /\ ~showStartScreen => Phase' = "GameOver"
     /\ gameOverInfo' # gameOverInfo =>
          \/ \E info \in SnapshotInputs.outcomes : GameOver(info)
          \/ \E data \in SnapshotInputs.resets : LobbyReset(data)
          \/ HandleMainMenu
     /\ (\E data \in SnapshotInputs.resets : LobbyReset(data))
          \/ HandleMainMenu => gameOverInfo' = None]_vars

C17_Witness ==
  /\ Phase = "GameOver"
  /\ gameOverInfo = Some(Outcome(<<Placement(Al, 2, 1), Placement(Bo, 1, 2)>>))
  /\ gameState.players = RosterGuestOut

\* C18: playerReadyForReplay is emitted only from the game-over screen, by
\* a step that changes nothing else; and the client goes from the game-over
\* screen to the lobby screen only by a lobbyReset step, which keeps the
\* lobby code, the name and the self-identity.
C18_ReplayWaitsForReset ==
  [][/\ Emits("playerReadyForReplay")' =>
          /\ Phase = "GameOver"
          /\ UNCHANGED <<playerName, boardSize, gameState, error, gameOver,
                         gameResult, gameOverInfo, eliminationInfo,
                         showStartScreen, lobbyCode, joinCodeInput,
                         lobbyStep, playerNameRef, mySocketId, errorTimeout,
                         justPickedNumber, socketId, timers>>
     /\ Phase = "GameOver" /\ Phase' = "LobbyWait" =>
          /\ \E data \in AllInputs.resets : LobbyReset(data)
          /\ UNCHANGED <<lobbyCode, playerName, mySocketId>>]_vars

C18_Witness ==
  /\ Emits("playerReadyForReplay")
  /\ Phase = "GameOver"
  /\ lobbyCode = Some(Code1)

\* C19: after every lobbyReset step, from whatever state, players, numbers
\* and boardSize of the snapshot are those of the payload, there is no turn
\* holder, the round is not started, no outcome is stored and the client is
\* on the lobby screen.
C19_ResetReplacesSnapshot ==
  [][\A data \in SnapshotInputs.resets :
       LobbyReset(data) =>
         /\ gameState'.players = data.players
         /\ gameState'.numbers = data.numbers
         /\ gameState'.boardSize = data.boardSize
         /\ gameState'.currentTurn = null
         /\ gameState'.currentPlayerName = None
         /\ ~gameState'.gameStarted
         /\ ~gameOver'
         /\ gameOverInfo' = None
         /\ Phase' = "LobbyWait"]_vars

\* the second reset payload has been applied
C19_Witness ==
  /\ Phase = "LobbyWait"
  /\ gameState.players = RosterAlone
  /\ gameState.numbers = <<25>>
  /\ gameState.boardSize = 30
  /\ gameState.currentTurn = null

----------------------------------------------------------------------------
(* Forms *)

\* C20: a click on Join Lobby emits joinLobby, with the trimmed code and the
\* name, if the trimmed name has at least 2 characters, the trimmed code has
\* exactly 5 and each of them is one of A-Z, 0-9; otherwise it emits
\* nothing, sets a validation message in the same step and the client stays
\* on the join form.
C20_JoinValidated ==
  [][ClickJoinLobby =>
       LET name == Trim(playerName)
           code == Trim(joinCodeInput)
       IN IF /\ Len(name) >= MinNameLength
             /\ Len(code) = CodeLength
             /\ \A i \in 1..Len(code) :
                  code[i] \in Range(UpperLetters) \cup Digits
            THEN emitted' = <<Message("joinLobby",
                                [code |-> code, playerName |-> playerName])>>
            ELSE /\ emitted' = <<>>
                 /\ error' \in {NameTooShortMessage, CodeLengthMessage,
                                CodePatternMessage}
                 /\ Phase' = "JoinForm"]_vars

\* a valid name with a 5-character code that has a character outside
\* A-Z, 0-9 was submitted and rejected
C20_Witness ==
  /\ Phase = "JoinForm"
  /\ error = CodePatternMessage
  /\ playerName = Al
  /\ emitted = <<>>

\* C21: an accepted join submit (one that emits joinLobby) ends on the lobby
\* screen.
C21_JoinSubmitEntersLobby ==
  [][ClickJoinLobby /\ Emits("joinLobby")' => Phase' = "LobbyWait"]_vars

\* C21, as the component does it: a join submit, accepted or not, leaves the
\* client on the join form; an accepted one stores the trimmed code; and the
\* join form is left for a lobby screen only by a lobbyJoined step.
C21_JoinWaitsForLobbyJoined ==
  [][/\ ClickJoinLobby => Phase' = "JoinForm"
     /\ ClickJoinLobby /\ Emits("joinLobby")' =>
          lobbyCode' = Some(Trim(joinCodeInput))
     /\ Phase = "JoinForm" /\ ~showStartScreen' =>
          \E data \in FormInputs.joins : LobbyJoined(data)]_vars

\* an accepted submit has been sent and the join form is still shown
C21_Witness ==
  /\ Emits("joinLobby")
  /\ Phase = "JoinForm"
  /\ lobbyCode = Some(Code1)

\* C22: a click on Create Lobby with a name that trims to at least 2
\* characters emits createLobby with the chosen board size, which is one of
\* 10, 20, ..., 100, and ends on the Creating Lobby screen; with a shorter
\* name it emits nothing and the create form stays; createLobby is emitted
\* by no step that starts outside the create form.
C22_CreateValidated ==
  [][/\ ClickCreateLobby =>
          IF Len(Trim(playerName)) >= MinNameLength
            THEN /\ emitted' =
                      <<Message("createLobby", [boardSize |-> boardSize])>>
                 /\ boardSize \in BoardSizeOptions
                 /\ Phase' = "AwaitingLobbyCode"
            ELSE emitted' = <<>> /\ Phase' = "CreateForm"
     /\ Emits("createLobby")' => Phase = "CreateForm"]_vars

C22_Witness ==
  /\ Emits("createLobby")
  /\ emitted[1].payload.boardSize = 10
  /\ Phase = "AwaitingLobbyCode"
  /\ playerName = <<" ", "B", "o">>

\* C23: a lobbyCreated that arrives on the Creating Lobby screen stores its
\* code, emits one joinLobby with that code and the display name as last
\* typed, and ends on the lobby screen.
C23_CreatorAutoJoins ==
  [][\A code \in FormInputs.codes :
       LobbyCreated(code) /\ Phase = "AwaitingLobbyCode" =>
         /\ lobbyCode' = Some(code)
         /\ emitted' = <<Message("joinLobby",
                           [code |-> code, playerName |-> playerName])>>
         /\ Phase' = "LobbyWait"]_vars

C23_Witness ==
  /\ Emits("joinLobby")
  /\ emitted[1].payload.playerName = <<" ", "B", "o">>
  /\ lobbyCode = Some(Code1)
  /\ lobbyStep = "creating"
  /\ Phase = "LobbyWait"

----------------------------------------------------------------------------
(* The reducer: what each step does to the snapshot *)

\* C24: after every lobbyJoined step with board size b the snapshot's
\* boardSize is b and its numbers are 1, 2, ..., b in order, the start
\* screen is hidden, and players, currentTurn, currentPlayerName and
\* gameStarted are as before.
C24_JoinedRebuildsPool ==
  [][\A data \in SnapshotInputs.joins :
       LobbyJoined(data) =>
         /\ gameState'.boardSize = data.boardSize
         /\ Len(gameState'.numbers) = data.boardSize
         /\ \A i \in 1..data.boardSize : gameState'.numbers[i] = i
         /\ ~showStartScreen'
         /\ \A f \in {"players", "currentTurn", "currentPlayerName",
                      "gameStarted"} : gameState'[f] = gameState[f]]_vars

\* joined a lobby of board size 30 with a roster already received
C24_Witness ==
  /\ gameState.boardSize = 30
  /\ Len(gameState.numbers) = 30
  /\ gameState.players = RosterUnpicked
  /\ gameState.status = "waiting"
  /\ Phase = "LobbyWait"

\* C25: a gameStarted step and a numberEliminated step leave currentTurn,
\* currentPlayerName and numbers equal to those of the payload, and these
\* three fields change in no other step than gameStarted, numberEliminated,
\* lobbyJoined, lobbyReset and the leave action.
C25_TurnAndPoolFromServer ==
  [][/\ \A data \in AllInputs.turns :
          GameStarted(data) =>
            /\ gameState'.currentTurn = data.currentTurn
            /\ gameState'.currentPlayerName = data.currentPlayerName
            /\ gameState'.numbers = data.numbers
     /\ \A data \in AllInputs.eliminations :
          NumberEliminated(data) =>
            /\ gameState'.currentTurn = data.currentTurn
            /\ gameState'.currentPlayerName = data.currentPlayerName
            /\ gameState'.numbers = data.remainingNumbers
     /\ (\E f \in {"currentTurn", "currentPlayerName", "numbers"} :
           gameState'[f] # gameState[f]) =>
          \/ \E data \in AllInputs.turns : GameStarted(data)
          \/ \E data \in AllInputs.eliminations : NumberEliminated(data)
          \/ \E data \in AllInputs.joins : LobbyJoined(data)
          \/ \E data \in AllInputs.resets : LobbyReset(data)
          \/ HandleMainMenu]_vars

\* the turn has passed to s2 by a numberEliminated, and the banner of a
\* later event is displayed
C25_Witness ==
  /\ Phase = "Playing"
  /\ gameState.currentTurn = "s2"
  /\ gameState.numbers = Tail(ArrayFrom1(DefaultBoardSize))
  /\ eliminationInfo # None

\* C26: of the six fields of the snapshot, playerList changes only players;
\* gameStarted only gameStarted, currentTurn, currentPlayerName and numbers;
\* numberEliminated only numbers, currentTurn and currentPlayerName;
\* lobbyJoined only boardSize and numbers; error, youWon, youLost,
\* playerEliminated, gameOver, lobbyCreated and resetNumbers none.
C26_EventsKeepOtherFields ==
  [][LET Keeps(fields) == \A f \in fields : gameState'[f] = gameState[f]
         All == {"players", "numbers", "currentTurn", "currentPlayerName",
                 "gameStarted", "boardSize"}
     IN /\ (\E players \in AllInputs.rosters : PlayerList(players)) =>
             Keeps(All \ {"players"})
        /\ (\E data \in AllInputs.turns : GameStarted(data)) =>
             Keeps({"players", "boardSize"})
        /\ (\E data \in AllInputs.eliminations : NumberEliminated(data)) =>
             Keeps({"players", "boardSize", "gameStarted"})
        /\ (\E data \in AllInputs.joins : LobbyJoined(data)) =>
             Keeps(All \ {"boardSize", "numbers"})
        /\ \/ \E message \in AllInputs.errors : Error(message)
           \/ \E data \in AllInputs.results : YouWon(data) \/ YouLost(data)
           \/ \E info \in AllInputs.banners : PlayerEliminated(info)
           \/ \E info \in AllInputs.outcomes : GameOver(info)
           \/ \E code \in AllInputs.codes : LobbyCreated(code)
           \/ ResetNumbers
           => Keeps(All)]_vars

\* the duplicate-pick message is displayed and the roster still has the
\* picks
C26_Witness ==
  /\ error = DuplicateMessage
  /\ gameState.players = RosterPicked
  /\ Phase = "LobbyWait"

\* C27: a click on the selection grid, on the board, on Start Game, on Play
\* Again, on Create Lobby or on Join Lobby leaves gameState as it was.
C27_IntentsKeepSnapshot ==
  [][\/ \E number \in Clickable(gameState.numbers) :
          ClickSelectNumber(number) \/ ClickBoardNumber(number)
     \/ ClickStartGame
     \/ ClickPlayAgain
     \/ ClickCreateLobby
     \/ ClickJoinLobby
     => gameState' = gameState]_vars

\* the pick has been sent and the roster does not show it yet
C27_Witness ==
  /\ Emits("selectNumber")
  /\ gameState.players = RosterUnpicked
  /\ mySocketId = "s1"

\* C28: an error step changes nothing but the displayed error, the error
\* timer handle and the pending timers: gameState, the screen, the round
\* outcome and the lobby code are as before.
C28_ErrorIsAdvisory ==
  [][\A message \in AllInputs.errors :
       Error(message) =>
         /\ Phase' = Phase
         /\ UNCHANGED <<playerName, boardSize, gameState, gameOver,
                        gameResult, gameOverInfo, eliminationInfo,
                        showStartScreen, lobbyCode, joinCodeInput, lobbyStep,
                        playerNameRef, mySocketId, justPickedNumber,
                        socketId>>]_vars

\* an error is displayed during a round in a lobby
C28_Witness ==
  /\ error \in AllInputs.errors
  /\ Pending("error")
  /\ lobbyCode = Some(Code1)
  /\ Phase = "Playing"

----------------------------------------------------------------------------
(* Server errors and the connection *)

\* C29, on the start screens: while a server error is displayed on a start
\* screen, also on the Creating Lobby screen after a rejected createLobby,
\* the screen offers at least one enabled control.
C29_InteractiveAfterError ==
  showStartScreen /\ error \in FormInputs.errors => ControlsEnabled # {}

\* C30: a step that emits selectNumber, eliminateNumber or leaveLobby starts
\* in a state where the self-identity is captured.
C30_SendsAfterIdentity ==
  [][Emits("selectNumber")' \/ Emits("eliminateNumber")'
       \/ Emits("leaveLobby")' => mySocketId # null]_vars

\* leaveLobby sent after the transport dropped: the identity captured at
\* connect is still there
C30_Witness ==
  /\ Emits("leaveLobby")
  /\ ~Connected
  /\ mySocketId = "s1"

\* C31: once an identity is captured, the turn check gives the answer that
\* the captured identity and the snapshot's turn holder determine: it is
\* true exactly when currentTurn is the identity that the selection check
\* looks up in the roster.
C31_OneIdentity ==
  mySocketId # null =>
    (IsMyTurn(socketId, gameState) <=> gameState.currentTurn = mySocketId)

\* C32: the step that follows the leave action does not move the client
\* from the menu to the lobby, the playing screen or the game-over screen.
C32_LeaveIsFinal ==
  [][Emits("leaveLobby") /\ Phase = "Menu" =>
       Phase' \notin {"LobbyWait", "Playing", "GameOver"}]_vars

\* C33: when the clear armed by a generic error runs, the error slot does
\* not hold the duplicate-pick message or a validation message.
C33_ErrorClearSparesOthers ==
  [][ErrorTimerFires =>
       error \notin {DuplicateMessage, NameTooShortMessage,
                     CodeLengthMessage, CodePatternMessage}]_vars

\* C34: a step that starts right after selectNumber was emitted, with no
\* roster update in between, does not emit selectNumber again.
C34_OneSelectPerRoster ==
  [][Emits("selectNumber") => ~Emits("selectNumber")']_vars

\* C35: the gameOver flag is set exactly when a round outcome is stored.
C35_FlagIffOutcome == gameOver <=> gameOverInfo # None

\* the round has ended while an error is displayed
C35_Witness ==
  /\ gameOver
  /\ gameOverInfo = Some(Outcome(<<Placement(Al, 2, 1), Placement(Al, 1, 2)>>))
  /\ error # null
  /\ Phase = "GameOver"

\* C36: the banner that youWon or youLost stores has the display name the
\* participant has when the event arrives, and the number, placement and
\* totalPlayers of the payload.
C36_SelfBannerHasMyName ==
  [][\A data \in NoticeInputs.results :
       YouWon(data) \/ YouLost(data) =>
         eliminationInfo' = Some([playerName |-> playerName,
                                  number |-> data.number,
                                  placement |-> data.placement,
                                  totalPlayers |-> data.totalPlayers])]_vars

====
